---- MODULE Spec2Model ----
(***************************************************************************)
(* Port Register (server.js): a lease registry persisted in ports.json,    *)
(* with lazy TTL expiry, served by synchronous express handlers.           *)
(*                                                                         *)
(* Time is Date.now() in milliseconds.  Strings that the code trims        *)
(* (agent, reason) are sequences of one-character strings.  A JSON field   *)
(* that is absent, null or NaN is the number 0: the code only ever tests   *)
(* such fields for falsiness, and the clock never reads 0.                 *)
(*                                                                         *)
(* store is the registration list of ports.json and disk says what the     *)
(* file holds; last is the request just answered with its response; calls  *)
(* are the requests followed through their handler step by step (none      *)
(* where the handlers run to completion).                                  *)
(***************************************************************************)
EXTENDS Integers, Sequences, FiniteSets, TLC

VARIABLES store, disk, now, last, calls

vars == <<store, disk, now, last, calls>>

\* ---------------------------------------------------------------- bounds
MaxTicks == 1

\* ------------------------------------------------------------- constants
TTL_MS == 30 * 60 * 1000

MinuteMs == 60 * 1000

TickStep == 30 * MinuteMs

StartTime == 60 * MinuteMs

\* a falsy JSON number field: absent, null, NaN (serialised as null) or 0
NoValue == 0

\* ---------------------------------------------------------------- inputs
PortInputs == {0, 8080, 8081}

AgentInputs == {<<>>, <<"a">>, <<" ", "b">>}

ReasonInputs == {<<" ">>, <<"r", " ">>}

\* ttlMinutes of the request body: not supplied, a number, or a non-numeric value
TtlInputs ==
  {[kind |-> "absent", val |-> 0], [kind |-> "nan", val |-> 0]}
    \cup {[kind |-> "num", val |-> v] : v \in {-15, 0, 45}}

OsPorts == {8080}

SuggestMin == {8080}

SuggestMax == {8080, 8081}

\* the binding netstat shows for a port, and the name tasklist shows for a pid
OsBinding(p) ==
  IF p % 2 = 0 THEN [pid |-> 4, proto |-> "TCP", state |-> "LISTENING"]
  ELSE [pid |-> 8, proto |-> "UDP", state |-> "UDP"]

OsNames == [pid \in {4} |-> "node.exe"]

\* what the OS utilities return for one request: getSystemPorts gives null
\* (ok = FALSE) or the map with keys ports, getPidMap gives names
ScanOf(S, names) ==
  [ok |-> TRUE, ports |-> S, map |-> [p \in S |-> OsBinding(p)], names |-> names]

ScanFailed == [ok |-> FALSE, ports |-> {}, map |-> <<>>, names |-> <<>>]

ScanResults == {ScanFailed} \cup {ScanOf(S, OsNames) : S \in SUBSET OsPorts}

\* --------------------------------------------------------------- helpers
RECURSIVE TrimLeft(_)
TrimLeft(s) == IF s # <<>> /\ Head(s) = " " THEN TrimLeft(Tail(s)) ELSE s

RECURSIVE TrimRight(_)
TrimRight(s) ==
  IF s # <<>> /\ s[Len(s)] = " " THEN TrimRight(SubSeq(s, 1, Len(s) - 1)) ELSE s

\* String.prototype.trim
Trim(s) == TrimRight(TrimLeft(s))

\* keepRegistration with >= for > : a lease is still kept at its expiry instant
keepRegistrationInclusive(r, t) ==
  IF r.expiresAt = NoValue THEN TRUE ELSE r.expiresAt >= t

\* the filter predicate of pruneExpired; t is the Date.now() it reads
keepRegistration(r, t) ==
  IF r.expiresAt = NoValue THEN TRUE ELSE r.expiresAt > t

\* a handler that skips the pruning
pruneExpiredSkipped(registrations, t) == registrations

\* pruneExpired: Array.prototype.filter keeps the order
RECURSIVE pruneExpired(_, _)
pruneExpired(registrations, t) ==
  IF registrations = <<>> THEN <<>>
  ELSE IF keepRegistration(Head(registrations), t)
       THEN <<Head(registrations)>> \o pruneExpired(Tail(registrations), t)
       ELSE pruneExpired(Tail(registrations), t)

\* Array.prototype.findIndex(r => r.port === port); 0 when there is none
RECURSIVE findIndexFrom(_, _, _)
findIndexFrom(registrations, port, i) ==
  IF i > Len(registrations) THEN 0
  ELSE IF registrations[i].port = port THEN i
  ELSE findIndexFrom(registrations, port, i + 1)

findIndex(registrations, port) == findIndexFrom(registrations, port, 1)

\* find comparing the record's number with the unparsed port string: never equal
findUnparsed(registrations, port) == <<>>

\* Array.prototype.find as a sequence of zero or one record
find(registrations, port) ==
  LET i == findIndex(registrations, port)
  IN IF i = 0 THEN <<>> ELSE <<registrations[i]>>

\* splice(idx) without the count: everything from idx on is removed
spliceRest(registrations, idx) == SubSeq(registrations, 1, idx - 1)

\* slice for splice: the array is left as it was
sliceForSplice(registrations, idx) == registrations

\* Array.prototype.splice(idx, 1)
splice(registrations, idx) ==
  SubSeq(registrations, 1, idx - 1) \o SubSeq(registrations, idx + 1, Len(registrations))

\* isPortInUseByOS: "null" when the scan failed
isPortInUseByOS(port, scan) ==
  IF ~scan.ok THEN "null" ELSE IF port \in scan.ports THEN "true" ELSE "false"

\* the response of a handler, with the request that caused it
Response(op, port, agent, status, regs, expiresAt, available, osInUse) ==
  [op |-> op, port |-> port, agent |-> agent, status |-> status, regs |-> regs,
   expiresAt |-> expiresAt, available |-> available, osInUse |-> osInUse, count |-> 0,
   view |-> <<>>]

\* a response that carries a count
Counted(resp, n) == [resp EXCEPT !.count = n]

\* a response that carries the list of OS-bound ports
Viewed(resp, v) == [resp EXCEPT !.view = v]

\* what a handler that loaded the file and saved it leaves behind: the file
\* contents and the response
Outcome(file, resp) == [store |-> file, resp |-> resp, io |-> "save"]

\* a handler that loaded the file and answered without saving
Unsaved(file, resp) == [store |-> file, resp |-> resp, io |-> "load"]

\* a handler that answered before it loaded the file
Early(file, resp) == [store |-> file, resp |-> resp, io |-> "none"]

\* a handler that saved without loading the file
Written(file, resp) == [store |-> file, resp |-> resp, io |-> "write"]

\* ------------------------------------------------------------- handlers
\* Each handler is a function of the file contents st, the clock t and the
\* request; the actions below apply it to the current state.

\* a lookup that never finds the name
processNameUnresolved(names, pid) == "null"

\* pidMap.get(pid) || null
processName(names, pid) == IF pid \in DOMAIN names THEN names[pid] ELSE "null"

\* the OS fields of a registration whose OS state is not known or not bound
unboundFields(r, osInUse) ==
  [port |-> r.port, agent |-> r.agent, reason |-> r.reason, registeredAt |-> r.registeredAt,
   expiresAt |-> r.expiresAt, id |-> r.id, lastHeartbeat |-> r.lastHeartbeat,
   osInUse |-> osInUse, osPid |-> NoValue, osProto |-> "null", osState |-> "null",
   osProcess |-> "null"]

\* enrich with false for null: a failed scan reads as "not bound"
enrichUnknownAsFree(r, scan) ==
  IF scan.ok /\ r.port \in scan.ports
  THEN [unboundFields(r, "true") EXCEPT
          !.osPid = scan.map[r.port].pid, !.osProto = scan.map[r.port].proto,
          !.osState = scan.map[r.port].state,
          !.osProcess = processName(scan.names, scan.map[r.port].pid)]
  ELSE unboundFields(r, "false")

\* the record GET /api/ports answers for the registration r
enrich(r, scan) ==
  IF ~scan.ok THEN unboundFields(r, "null")
  ELSE IF r.port \notin scan.ports THEN unboundFields(r, "false")
  ELSE [unboundFields(r, "true") EXCEPT
          !.osPid = scan.map[r.port].pid, !.osProto = scan.map[r.port].proto,
          !.osState = scan.map[r.port].state,
          !.osProcess = processName(scan.names, scan.map[r.port].pid)]

\* Array.prototype.map with enrich
RECURSIVE enrichAll(_, _)
enrichAll(registrations, scan) ==
  IF registrations = <<>> THEN <<>>
  ELSE <<enrich(Head(registrations), scan)>> \o enrichAll(Tail(registrations), scan)

\* GET /api/ports
listPorts(st, t, scan) ==
  LET registrations == pruneExpired(st, t)
  IN Outcome(registrations,
             Counted(Response("list", 0, <<>>, 200, enrichAll(registrations, scan), NoValue,
                              FALSE, IF scan.ok THEN "scanned" ELSE "null"),
                     Len(registrations)))

\* the least element of a non-empty set of numbers
Least(S) == CHOOSE x \in S : \A y \in S : x <= y

\* sort() without the comparator: the keys are compared as text, 5000 before 80
RECURSIVE sortedAsText(_)
sortedAsText(S) ==
  IF S = {} THEN <<>>
  ELSE LET RECURSIVE digits(_)
           digits(n) == IF n < 10 THEN <<n>> ELSE Append(digits(n \div 10), n % 10)
           RECURSIVE textBefore(_, _)
           textBefore(x, y) ==
             IF x = <<>> THEN TRUE
             ELSE IF y = <<>> THEN FALSE
             ELSE IF Head(x) # Head(y) THEN Head(x) < Head(y)
             ELSE textBefore(Tail(x), Tail(y))
           m == CHOOSE x \in S : \A y \in S : textBefore(digits(x), digits(y))
       IN <<m>> \o sortedAsText(S \ {m})

\* [...portMap.keys()].sort((a, b) => a - b)
RECURSIVE sorted(_)
sorted(S) == IF S = {} THEN <<>> ELSE <<Least(S)>> \o sorted(S \ {Least(S)})

\* new Map(registrations.map(r => [r.port, r])).get(p): the last record for p
RECURSIVE regMapGet(_, _)
regMapGet(registrations, p) ==
  IF registrations = <<>> THEN <<>>
  ELSE IF registrations[Len(registrations)].port = p
       THEN <<registrations[Len(registrations)]>>
       ELSE regMapGet(SubSeq(registrations, 1, Len(registrations) - 1), p)

\* one entry of the system view
annotate(p, scan, registrations) ==
  [port |-> p, pid |-> scan.map[p].pid, proto |-> scan.map[p].proto,
   state |-> scan.map[p].state, process |-> processName(scan.names, scan.map[p].pid),
   registered |-> regMapGet(registrations, p) # <<>>,
   registration |-> regMapGet(registrations, p)]

\* allPorts.map(annotate)
RECURSIVE annotateAll(_, _, _)
annotateAll(allPorts, scan, registrations) ==
  IF allPorts = <<>> THEN <<>>
  ELSE <<annotate(Head(allPorts), scan, registrations)>>
         \o annotateAll(Tail(allPorts), scan, registrations)

\* GET /api/ports/system
systemPorts(st, t, scan) ==
  IF ~scan.ok
  THEN Early(st, Response("system", 0, <<>>, 500, <<>>, NoValue, FALSE, "null"))
  ELSE LET registrations == pruneExpired(st, t)
           matched == SelectSeq(registrations, LAMBDA r : r.port \in scan.ports)
           annotated == annotateAll(sorted(scan.ports), scan, registrations)
       IN Unsaved(st, Viewed(Counted(Response("system", 0, <<>>, 200, matched, NoValue,
                                              FALSE, "scanned"),
                                     Len(annotated)),
                             annotated))

\* GET /api/ports/check/:port
checkPort(st, t, port, scan) ==
  IF port < 1 \/ port > 65535
  THEN Early(st, Response("check", port, <<>>, 400, <<>>, NoValue, FALSE, "null"))
  ELSE LET registrations == pruneExpired(st, t)
           registered == find(registrations, port)
           osInUse == isPortInUseByOS(port, scan)
       IN Outcome(registrations,
                  Response("check", port, <<>>, 200, registered, NoValue,
                           registered = <<>> /\ osInUse # "true", osInUse))

\* the ttl taken without its sign
ttlOfMagnitude(ttlMinutes) ==
  IF ttlMinutes.kind = "absent" \/ ttlMinutes.val = 0 THEN TTL_MS
  ELSE IF ttlMinutes.val < 0 THEN (0 - ttlMinutes.val) * 60 * 1000
  ELSE ttlMinutes.val * 60 * 1000

\* the ttl of a registration: ttlMinutes ? parseInt(ttlMinutes) * 60 * 1000 : TTL_MS
\* (used only when ttlMinutes is a number)
ttlOf(ttlMinutes) ==
  IF ttlMinutes.kind = "absent" \/ ttlMinutes.val = 0 THEN TTL_MS
  ELSE ttlMinutes.val * 60 * 1000

\* newExpiresAt that ignores ttlMinutes
newExpiresAtDefaultOnly(t, ttlMinutes) == t + TTL_MS

\* expiresAt: now + ttl; NaN for a non-numeric ttlMinutes, which is saved as null
newExpiresAt(t, ttlMinutes) ==
  IF ttlMinutes.kind = "nan" THEN NoValue ELSE t + ttlOf(ttlMinutes)

\* the validation at the head of POST /api/ports/register
validRegister(port, agent, reason) ==
  /\ ~(port = 0 \/ port < 1 \/ port > 65535)
  /\ ~(agent = <<>> \/ Trim(agent) = <<>>)
  /\ ~(reason = <<>> \/ Trim(reason) = <<>>)

\* the record register builds
newRegistration(t, port, agent, reason, ttlMinutes) ==
  [port |-> port, agent |-> Trim(agent), reason |-> Trim(reason), registeredAt |-> t,
   expiresAt |-> newExpiresAt(t, ttlMinutes), id |-> <<port, t>>, lastHeartbeat |-> NoValue]

\* register that lets the owner of the port register it again
registerOwnerAgain(st, t, port, agent, reason, ttlMinutes) ==
  IF ~validRegister(port, agent, reason)
  THEN Early(st, Response("register", port, agent, 400, <<>>, NoValue, FALSE, "null"))
  ELSE LET registrations == pruneExpired(st, t)
           existing == find(registrations, port)
           registration == newRegistration(t, port, agent, reason, ttlMinutes)
       IN IF existing # <<>> /\ existing[1].agent # Trim(agent)
          THEN Unsaved(st, Response("register", port, agent, 409, existing, NoValue, FALSE,
                                    "null"))
          ELSE Outcome(Append(SelectSeq(registrations, LAMBDA r : r.port # port), registration),
                       Response("register", port, agent, 201, <<registration>>, NoValue,
                                FALSE, "null"))

\* POST /api/ports/register
register(st, t, port, agent, reason, ttlMinutes) ==
  IF ~validRegister(port, agent, reason)
  THEN Early(st, Response("register", port, agent, 400, <<>>, NoValue, FALSE, "null"))
  ELSE LET registrations == pruneExpired(st, t)
           existing == find(registrations, port)
           registration == newRegistration(t, port, agent, reason, ttlMinutes)
       IN IF existing # <<>>
          THEN Unsaved(st, Response("register", port, agent, 409, existing, NoValue, FALSE,
                                    "null"))
          ELSE Outcome(Append(registrations, registration),
                       Response("register", port, agent, 201, <<registration>>, NoValue,
                                FALSE, "null"))

\* the agent test left out
agentMismatchNever(reg, agent) == FALSE

\* the agent test with === for !==
agentMismatchInverted(reg, agent) == agent # <<>> /\ reg.agent = agent

\* the agent test of heartbeat and release: agent && reg.agent !== agent
agentMismatch(reg, agent) == agent # <<>> /\ reg.agent # agent

\* a renewal that extends the old expiry instead of restarting from the clock
renewedExpiresAtExtending(reg, t) == reg.expiresAt + TTL_MS

\* the expiry heartbeat sets: Date.now() + TTL_MS
renewedExpiresAt(reg, t) == t + TTL_MS

\* POST /api/ports/:port/heartbeat
heartbeat(st, t, port, agent) ==
  LET idx == findIndex(st, port)
  IN IF idx = 0
     THEN Unsaved(st, Response("heartbeat", port, agent, 404, <<>>, NoValue, FALSE, "null"))
     ELSE IF agentMismatch(st[idx], agent)
     THEN Unsaved(st, Response("heartbeat", port, agent, 403, <<>>, NoValue, FALSE, "null"))
     ELSE LET expiresAt == renewedExpiresAt(st[idx], t)
          IN Outcome([st EXCEPT ![idx].expiresAt = expiresAt, ![idx].lastHeartbeat = t],
                     Response("heartbeat", port, agent, 200, <<>>, expiresAt, FALSE, "null"))

\* DELETE /api/ports/:port
release(st, t, port, agent) ==
  LET idx == findIndex(st, port)
  IN IF idx = 0
     THEN Unsaved(st, Response("release", port, agent, 404, <<>>, NoValue, FALSE, "null"))
     ELSE IF agentMismatch(st[idx], agent)
     THEN Unsaved(st, Response("release", port, agent, 403, <<>>, NoValue, FALSE, "null"))
     ELSE Outcome(splice(st, idx),
                  Response("release", port, agent, 200, <<st[idx]>>, NoValue, FALSE, "null"))

\* clearAll that answers without saving
clearAllUnsaved(st) ==
  Early(st, Response("clearAll", 0, <<>>, 200, <<>>, NoValue, FALSE, "null"))

\* DELETE /api/ports
clearAll(st) ==
  Written(<<>>, Response("clearAll", 0, <<>>, 200, <<>>, NoValue, FALSE, "null"))

\* the scan loop without the test of the registered ports
RECURSIVE suggestFromOsOnly(_, _, _, _)
suggestFromOsOnly(p, max, registeredPorts, scan) ==
  IF p > max THEN 0
  ELSE IF isPortInUseByOS(p, scan) # "true" THEN p
  ELSE suggestFromOsOnly(p + 1, max, registeredPorts, scan)

\* the scan loop with p < max: the last port of the range is never tried
RECURSIVE suggestFromBelowMax(_, _, _, _)
suggestFromBelowMax(p, max, registeredPorts, scan) ==
  IF p >= max THEN 0
  ELSE IF p \notin registeredPorts /\ isPortInUseByOS(p, scan) # "true" THEN p
  ELSE suggestFromBelowMax(p + 1, max, registeredPorts, scan)

\* the scan loop of GET /api/suggest: the first p in min..max that passes, 0 if none
RECURSIVE suggestFrom(_, _, _, _)
suggestFrom(p, max, registeredPorts, scan) ==
  IF p > max THEN 0
  ELSE IF p \notin registeredPorts /\ isPortInUseByOS(p, scan) # "true" THEN p
  ELSE suggestFrom(p + 1, max, registeredPorts, scan)

\* GET /api/suggest
suggest(st, t, minQ, maxQ, scan) ==
  LET min == IF minQ = 0 THEN 3000 ELSE minQ
      max == IF maxQ = 0 THEN 9999 ELSE maxQ
      registrations == pruneExpired(st, t)
      registeredPorts == {registrations[i].port : i \in 1..Len(registrations)}
      p == suggestFrom(min, max, registeredPorts, scan)
  IN IF p # 0
     THEN Unsaved(st, Response("suggest", p, <<>>, 200, <<>>, NoValue, TRUE,
                               isPortInUseByOS(p, scan)))
     ELSE Unsaved(st, Response("suggest", 0, <<>>, 404, <<>>, NoValue, FALSE, "null"))

\* ------------------------------------------------------------- the file
\* disk is what ports.json holds: "absent" (no file), "unparseable" (not
\* JSON), "noList" (JSON without a registrations array) or "ok"; store is the
\* registrations array of an "ok" file and <<>> otherwise.

\* loadData: the registrations it returns when it returns a list
loadData(d, st) == IF d = "ok" THEN st ELSE <<>>

\* the file after loadData: a missing file is created with an empty list
diskAfterLoad(d) == IF d = "absent" THEN "ok" ELSE d

\* what the uncaught TypeError of a handler gives the caller (express answers 500)
Thrown(resp) == [resp EXCEPT !.status = 500, !.port = 0, !.agent = <<>>, !.regs = <<>>,
                             !.expiresAt = NoValue, !.available = FALSE, !.osInUse = "null",
                             !.count = 0, !.view = <<>>]

\* the file and the response after a handler whose outcome on the loaded
\* registrations is out: reading registrations of a file without the array throws
served(d, st, out) ==
  IF out.io = "none" THEN [store |-> st, disk |-> d, resp |-> out.resp]
  ELSE IF out.io = "write" THEN [store |-> out.store, disk |-> "ok", resp |-> out.resp]
  ELSE IF d = "noList" THEN [store |-> st, disk |-> d, resp |-> Thrown(out.resp)]
  ELSE IF out.io = "load" THEN [store |-> st, disk |-> diskAfterLoad(d), resp |-> out.resp]
  ELSE [store |-> out.store, disk |-> "ok", resp |-> out.resp]

\* ------------------------------------------------------------------ Init
Init ==
  /\ store = <<>>
  /\ disk = "absent"
  /\ now = StartTime
  /\ last = Response("start", 0, <<>>, 0, <<>>, NoValue, FALSE, "null")
  /\ calls = <<>>

\* the clock advances between requests
Tick ==
  /\ now < StartTime + MaxTicks * TickStep
  /\ now' = now + TickStep
  /\ UNCHANGED <<store, disk, last, calls>>

\* --------------------------------------------------------------- actions
\* a handler runs to completion: the file and the response change together
List ==
  \E scan \in ScanResults :
    LET out == served(disk, store, listPorts(loadData(disk, store), now, scan))
    IN /\ store' = out.store /\ disk' = out.disk /\ last' = out.resp
       /\ UNCHANGED <<now, calls>>

System ==
  \E scan \in ScanResults :
    LET out == served(disk, store, systemPorts(loadData(disk, store), now, scan))
    IN /\ store' = out.store /\ disk' = out.disk /\ last' = out.resp
       /\ UNCHANGED <<now, calls>>

Check ==
  \E port \in PortInputs, scan \in ScanResults :
    LET out == served(disk, store, checkPort(loadData(disk, store), now, port, scan))
    IN /\ store' = out.store /\ disk' = out.disk /\ last' = out.resp
       /\ UNCHANGED <<now, calls>>

Register ==
  \E port \in PortInputs, agent \in AgentInputs, reason \in ReasonInputs, ttl \in TtlInputs :
    LET out == served(disk, store,
                      register(loadData(disk, store), now, port, agent, reason, ttl))
    IN /\ store' = out.store /\ disk' = out.disk /\ last' = out.resp
       /\ UNCHANGED <<now, calls>>

Heartbeat ==
  \E port \in PortInputs, agent \in AgentInputs :
    LET out == served(disk, store, heartbeat(loadData(disk, store), now, port, agent))
    IN /\ store' = out.store /\ disk' = out.disk /\ last' = out.resp
       /\ UNCHANGED <<now, calls>>

Release ==
  \E port \in PortInputs, agent \in AgentInputs :
    LET out == served(disk, store, release(loadData(disk, store), now, port, agent))
    IN /\ store' = out.store /\ disk' = out.disk /\ last' = out.resp
       /\ UNCHANGED <<now, calls>>

ClearAll ==
  LET out == served(disk, store, clearAll(loadData(disk, store)))
  IN /\ store' = out.store /\ disk' = out.disk /\ last' = out.resp
     /\ UNCHANGED <<now, calls>>

Suggest ==
  \E minQ \in SuggestMin, maxQ \in SuggestMax, scan \in ScanResults :
    LET out == served(disk, store, suggest(loadData(disk, store), now, minQ, maxQ, scan))
    IN /\ store' = out.store /\ disk' = out.disk /\ last' = out.resp
       /\ UNCHANGED <<now, calls>>

Next ==
  \/ Tick
  \/ List
  \/ System
  \/ Check
  \/ Register
  \/ Heartbeat
  \/ Release
  \/ ClearAll
  \/ Suggest

Spec == Init /\ [][Next]_vars

\* ---------------------------------------------------------------- claims
\* the registrations that are active at the current time
Active == pruneExpired(store, now)

\* a step in which a handler ran (the clock stood still) and answered op
Answered(op) == now' = now /\ last'.op = op

\* a register request that passes the validation
ValidAgents == {a \in AgentInputs : Trim(a) # <<>>}

ValidReasons == {r \in ReasonInputs : Trim(r) # <<>>}

\* C1: at any time, the set of registrations pruned at the current time holds
\* at most one registration for any port.
C1_OnePerPort ==
  \A i, j \in 1..Len(Active) : Active[i].port = Active[j].port => i = j

\* a port registered again after its first lease expired, next to another lease
C1_Witness ==
  /\ Len(Active) = 2
  /\ last.op = "register" /\ last.status = 201
  /\ \E i \in 1..Len(store) : store[i].registeredAt > StartTime /\ store[i].port = 8080

\* C2: a valid register on a port with an active registration answers 409
\* with the current owner, whoever asks, and leaves the store as it was.
C2_ConflictKeepsOwner ==
  [][(Answered("register") /\ last'.status # 400
        /\ find(Active, last'.port) # <<>>)
      => /\ last'.status = 409
         /\ last'.regs = find(Active, last'.port)
         /\ store' = store]_vars

\* the owner itself asked again and was refused
C2_Witness ==
  /\ last.op = "register" /\ last.status = 409
  /\ last.regs[1].agent = Trim(last.agent)
  /\ find(Active, last.port) = last.regs

\* the ttl the claim C3 gives a request: the default only when none is supplied
C3_ClaimedTtl(ttlMinutes) ==
  IF ttlMinutes.kind = "absent" THEN TTL_MS ELSE ttlMinutes.val * MinuteMs

\* the ttl the code gives a request: the default also for ttlMinutes = 0
C3_AmendedTtl(ttlMinutes) ==
  IF ttlMinutes.kind = "absent" \/ ttlMinutes.val = 0 THEN TTL_MS
  ELSE ttlMinutes.val * MinuteMs

\* a handler answered a register for a port without an active registration
C3_OnFreePort == Answered("register") /\ find(Active, last'.port) = <<>>

\* the register step just taken was register(port, agent, reason, ttlMinutes),
\* valid and numeric in its ttl
C3_Case(port, agent, reason, ttlMinutes) ==
  /\ validRegister(port, agent, reason)
  /\ ttlMinutes.kind # "nan"
  /\ LET out == register(store, now, port, agent, reason, ttlMinutes)
     IN store' = out.store /\ last' = out.resp

\* the record for port is stored with the agent trimmed and the given expiry
C3_Stored(port, agent, expiresAt) ==
  /\ last'.status = 201
  /\ find(store', port) # <<>>
  /\ find(store', port)[1].agent = Trim(agent)
  /\ find(store', port)[1].expiresAt = expiresAt
  /\ last'.regs = find(store', port)

\* a check of port right after the step reports it taken by agent
C3_CheckSeesOwner(port, agent) ==
  \A scan \in ScanResults :
    LET resp == checkPort(store', now', port, scan).resp
    IN resp.status = 200 /\ ~resp.available /\ resp.regs # <<>>
       /\ resp.regs[1].agent = Trim(agent)

\* C3 as stated: a valid register on a free port answers 201, stores the
\* record with expiresAt = now + ttl (default when none is supplied), and an
\* immediate check reports the port taken by the agent.
C3_AsClaimed ==
  [][C3_OnFreePort =>
      \A reason \in ReasonInputs, ttlMinutes \in TtlInputs :
        C3_Case(last'.port, last'.agent, reason, ttlMinutes)
          => /\ C3_Stored(last'.port, last'.agent, now + C3_ClaimedTtl(ttlMinutes))
             /\ C3_CheckSeesOwner(last'.port, last'.agent)]_vars

\* C3 amended: as C3, with the default ttl also for ttlMinutes = 0, and the
\* immediate check reporting the owner when the ttl is positive.
C3_RegisterThenCheck ==
  [][C3_OnFreePort =>
      \A reason \in ReasonInputs, ttlMinutes \in TtlInputs :
        C3_Case(last'.port, last'.agent, reason, ttlMinutes)
          => /\ C3_Stored(last'.port, last'.agent, now + C3_AmendedTtl(ttlMinutes))
             /\ (C3_AmendedTtl(ttlMinutes) > 0
                   => C3_CheckSeesOwner(last'.port, last'.agent))]_vars

\* a registration with a supplied ttl longer than the default was just stored
\* by an agent written with surrounding blanks
C3_Witness ==
  /\ last.op = "register" /\ last.status = 201
  /\ last.agent # Trim(last.agent)
  /\ last.regs[1].expiresAt = now + 45 * MinuteMs
  /\ find(Active, last.port) = last.regs

\* a handler answered a heartbeat or a release
AnsweredLease == Answered("heartbeat") \/ Answered("release")

\* C4 as stated: a heartbeat or release on a port without an active
\* registration answers 404, also when an expired record for the port is still
\* in the store; that record is neither renewed nor returned as released.
C4_AsClaimed ==
  [][(AnsweredLease /\ find(Active, last'.port) = <<>>)
      => /\ last'.status = 404
         /\ last'.regs = <<>>
         /\ find(pruneExpired(store', now'), last'.port) = <<>>]_vars

\* C5: a heartbeat or release whose agent is supplied and differs from the
\* agent of the active registration on the port answers 403 and leaves the
\* store as it was.
C5_ForbiddenKeepsStore ==
  [][(AnsweredLease /\ last'.agent # <<>>
        /\ find(Active, last'.port) # <<>>
        /\ find(Active, last'.port)[1].agent # last'.agent)
      => last'.status = 403 /\ store' = store]_vars

\* another agent was refused on a port whose lease is active and once renewed
C5_Witness ==
  /\ last.op \in {"heartbeat", "release"} /\ last.status = 403
  /\ find(Active, last.port) # <<>>
  /\ find(Active, last.port)[1].lastHeartbeat # NoValue

\* r with only expiresAt and lastHeartbeat taken from q
Renewed(r, q) == [r EXCEPT !.expiresAt = q.expiresAt, !.lastHeartbeat = q.lastHeartbeat]

\* C6: a successful heartbeat sets expiresAt to now + TTL_MS whatever the ttl
\* of the registration was, stamps lastHeartbeat, answers the new expiry and
\* leaves the other fields and the other records as they were.
C6_HeartbeatRenews ==
  [][(Answered("heartbeat") /\ last'.status = 200)
      => LET idx == findIndex(store, last'.port)
         IN /\ idx # 0
            /\ Len(store') = Len(store)
            /\ store'[idx].expiresAt = now + TTL_MS
            /\ store'[idx].lastHeartbeat = now
            /\ last'.expiresAt = now + TTL_MS
            /\ store'[idx] = Renewed(store[idx], store'[idx])]_vars

\* a lease was just renewed at a later time than it was registered
C6_Witness ==
  /\ last.op = "heartbeat" /\ last.status = 200
  /\ find(store, last.port) # <<>>
  /\ find(store, last.port)[1].lastHeartbeat = now
  /\ find(store, last.port)[1].registeredAt < now

\* C7: a successful release by the owning agent removes the record of the
\* port and answers it; afterwards a check with the port not bound reports it
\* available and unregistered, and any valid register of the port succeeds.
C7_ReleaseFrees ==
  [][(Answered("release") /\ last'.status = 200 /\ last'.agent # <<>>)
      => /\ last'.regs = find(store, last'.port)
         /\ last'.regs[1].agent = last'.agent
         /\ find(store', last'.port) = <<>>
         /\ Len(store') = Len(store) - 1
         /\ \A scan \in ScanResults :
              (scan.ok /\ last'.port \notin scan.ports)
                => LET resp == checkPort(store', now', last'.port, scan).resp
                   IN resp.available /\ resp.regs = <<>>
         /\ \A agent \in ValidAgents, reason \in ValidReasons, ttl \in TtlInputs :
              \A t \in {now', now' + TickStep} :
                register(store', t, last'.port, agent, reason, ttl).resp.status = 201]_vars

\* the owner released a lease that was still active, next to another lease
C7_Witness ==
  /\ last.op = "release" /\ last.status = 200 /\ last.agent # <<>>
  /\ keepRegistration(last.regs[1], now)
  /\ Len(store) = 1

\* the record r of the store is still there after the step
Kept(r) == \E j \in 1..Len(store') : store'[j] = r

\* what may happen to the record r in one step, when heartbeat and release act
\* for the agents of by(r)
C8_Allowed(r, by(_)) ==
  \/ Kept(r)
  \/ /\ Answered("heartbeat") /\ last'.status = 200
     /\ last'.port = r.port /\ last'.agent \in by(r)
     /\ \E j \in 1..Len(store') : store'[j] = Renewed(r, store'[j])
  \/ /\ Answered("release") /\ last'.status = 200
     /\ last'.port = r.port /\ last'.agent \in by(r)
     /\ find(store', r.port) = <<>>
  \/ Answered("clearAll") /\ store' = <<>>
  \/ /\ Answered("list") \/ Answered("check") \/ Answered("register")
     /\ ~keepRegistration(r, now)

OwnerOnly(r) == {r.agent}

OwnerOrNone(r) == {r.agent, <<>>}

\* C8 as stated: a record's expiresAt changes only by a heartbeat of its own
\* agent, and a record leaves the store only by a release of its own agent, by
\* clearAll or by pruning once expired; a heartbeat or release without an
\* agent changes nothing.
C8_AsClaimed ==
  [][\A i \in 1..Len(store) : C8_Allowed(store[i], OwnerOnly)]_vars

\* C8 amended: the same, with a heartbeat or release that supplies no agent
\* acting like one of the owner.
C8_OnlyOwnerOrAnonymous ==
  [][\A i \in 1..Len(store) : C8_Allowed(store[i], OwnerOrNone)]_vars

\* a release without an agent removed an active lease
C8_Witness ==
  /\ last.op = "release" /\ last.status = 200 /\ last.agent = <<>>
  /\ keepRegistration(last.regs[1], now)

\* C9: after clearAll the registry is empty: list counts 0, check reports no
\* owner for any port and no valid register is answered 409.
C9_ClearAllEmpties ==
  last.op = "clearAll"
    => /\ last.status = 200
       /\ store = <<>>
       /\ \A scan \in ScanResults :
            /\ listPorts(store, now, scan).resp.count = 0
            /\ listPorts(store, now, scan).resp.regs = <<>>
            /\ \A port \in PortInputs : checkPort(store, now, port, scan).resp.regs = <<>>
       /\ \A port \in PortInputs, agent \in AgentInputs, reason \in ReasonInputs,
             ttl \in TtlInputs :
            register(store, now, port, agent, reason, ttl).resp.status # 409

\* clearAll answered after the clock had advanced
C9_Witness == last.op = "clearAll" /\ last.status = 200 /\ now > StartTime


\* a handler that the claim names answered
AnsweredPruning ==
  \E op \in {"list", "system", "check", "suggest", "register", "heartbeat", "release"} :
    Answered(op)

\* C11 as stated, for the records the operation found in the store: after
\* list, system, check, suggest, register (success or failure), heartbeat or
\* release completes at time t, the persisted store holds none of them with
\* expiresAt <= t.
C11_AsClaimed ==
  [][AnsweredPruning
      => \A i \in 1..Len(store') :
           (\E j \in 1..Len(store) : store[j] = store'[i])
             => keepRegistration(store'[i], now')]_vars

\* C14 as stated: check reports available=true only when the port has no
\* active registration and a successful scan shows it not bound; suggest
\* returns a port only when a successful scan shows it not bound.
C14_AsClaimed ==
  /\ (last.op = "check" /\ last.status = 200 /\ last.available)
       => (last.regs = <<>> /\ last.osInUse = "false")
  /\ (last.op = "suggest" /\ last.status = 200) => last.osInUse = "false"

MaxLen == 3

\* records that differ in port and expiry around the clock
PruneRecords ==
  {[port |-> p, agent |-> <<"a">>, reason |-> <<"r">>, registeredAt |-> StartTime - TickStep,
    expiresAt |-> e, id |-> <<p, StartTime - TickStep>>, lastHeartbeat |-> NoValue] :
     p \in {8080, 8081}, e \in {NoValue, StartTime - 1, StartTime, StartTime + 1}}

RECURSIVE SeqsUpTo(_, _)
SeqsUpTo(S, n) ==
  IF n = 0 THEN {<<>>}
  ELSE SeqsUpTo(S, n - 1) \cup {Append(q, x) : q \in {z \in SeqsUpTo(S, n - 1) : Len(z) = n - 1}, x \in S}

PruneInit ==
  /\ store \in SeqsUpTo(PruneRecords, MaxLen)
  /\ disk = "ok"
  /\ now = StartTime
  /\ last = Response("start", 0, <<>>, 0, <<>>, NoValue, FALSE, "null")
  /\ calls = <<>>

\* data.registrations = pruneExpired(data.registrations); the input is kept in last
Prune ==
  /\ last.op = "start"
  /\ store' = pruneExpired(store, now)
  /\ last' = Response("prune", 0, <<>>, 200, store, NoValue, FALSE, "null")
  /\ UNCHANGED <<disk, now, calls>>

PruneNext == Prune

PruneSpec == PruneInit /\ [][PruneNext]_vars

\* the registrations of S whose expiresAt is absent or later than t, in order
C10_Kept(S, t) == SelectSeq(S, LAMBDA r : r.expiresAt = NoValue \/ r.expiresAt > t)

\* C10: prune(S, t) is exactly the records of S with expiresAt absent or
\* strictly later than t, in their order, and pruning twice is pruning once.
C10_PruneExact ==
  /\ pruneExpired(store, now) = C10_Kept(store, now)
  /\ pruneExpired(pruneExpired(store, now), now) = pruneExpired(store, now)
  /\ last.op = "prune" => store = C10_Kept(last.regs, now) /\ pruneExpired(store, now) = store

\* a list with a record expiring at this very instant, one without expiry and
\* one still running was pruned
C10_Witness ==
  /\ last.op = "prune"
  /\ \E i, j, k \in 1..Len(last.regs) :
       /\ last.regs[i].expiresAt = now
       /\ last.regs[j].expiresAt = NoValue
       /\ last.regs[k].expiresAt > now
       /\ j < i /\ i < k
  /\ Len(store) = 2


\* ------------------------------------------------- the readers on their own
\* One read request against a store that holds active and expired records;
\* calls holds the request, the store it found and, once served, the response.

ReadPorts == {5000, 5001, 5002}

\* a port whose decimal text sorts after the others
LowPort == 80

\* the store holds at most one record per port, registered with the default
\* ttl either TTL_MS ago (due at this very instant) or a minute later
ReadRecords ==
  {newRegistration(t, p, <<"a">>, <<"r">>, [kind |-> "absent", val |-> 0]) :
     p \in ReadPorts, t \in {StartTime - TTL_MS, StartTime - TTL_MS + MinuteMs}}

ReadStores ==
  {st \in SeqsUpTo(ReadRecords, MaxLen) :
     \A i, j \in 1..Len(st) : st[i].port = st[j].port => i = j}

\* getPidMap gives the names, or an empty map when tasklist fails
ReadScans ==
  {ScanFailed}
    \cup {ScanOf(S, names) : S \in SUBSET (ReadPorts \cup {LowPort}), names \in {OsNames, <<>>}}

\* a request: the operation, its parameters and what the OS utilities return
Request(op, port, agent, min, max, scan) ==
  [op |-> op, port |-> port, agent |-> agent, min |-> min, max |-> max, scan |-> scan]

ReadRequests ==
  {Request(op, 0, <<>>, 0, 0, scan) : op \in {"list", "system"}, scan \in ReadScans}
    \cup {Request("check", port, <<>>, 0, 0, scan) :
            port \in ReadPorts \cup {0}, scan \in ReadScans}
    \cup {Request("suggest", 0, <<>>, min, max, scan) :
            min \in ReadPorts, max \in ReadPorts, scan \in ReadScans}

\* a request that has arrived, with the store it will find
Received(req, st) ==
  [pc |-> "received", req |-> req, data |-> st,
   resp |-> Response("start", 0, <<>>, 0, <<>>, NoValue, FALSE, "null")]

\* the request once the response is sent
Done(call, resp) == [call EXCEPT !.pc = "done", !.resp = resp]

ReadInit ==
  /\ store \in ReadStores
  /\ disk = "ok"
  /\ now = StartTime
  /\ last = Response("start", 0, <<>>, 0, <<>>, NoValue, FALSE, "null")
  /\ \E req \in ReadRequests : calls = <<Received(req, store)>>

\* the request waiting to be served is an op
Waiting(op) == calls[1].pc = "received" /\ calls[1].req.op = op

ReadList ==
  /\ Waiting("list")
  /\ LET out == served(disk, store, listPorts(loadData(disk, store), now, calls[1].req.scan))
     IN /\ store' = out.store /\ disk' = out.disk /\ last' = out.resp
        /\ calls' = <<Done(calls[1], out.resp)>>
  /\ UNCHANGED now

ReadSystem ==
  /\ Waiting("system")
  /\ LET out == served(disk, store, systemPorts(loadData(disk, store), now, calls[1].req.scan))
     IN /\ store' = out.store /\ disk' = out.disk /\ last' = out.resp
        /\ calls' = <<Done(calls[1], out.resp)>>
  /\ UNCHANGED now

ReadCheck ==
  /\ Waiting("check")
  /\ LET out == served(disk, store,
                       checkPort(loadData(disk, store), now, calls[1].req.port,
                                 calls[1].req.scan))
     IN /\ store' = out.store /\ disk' = out.disk /\ last' = out.resp
        /\ calls' = <<Done(calls[1], out.resp)>>
  /\ UNCHANGED now

ReadSuggest ==
  /\ Waiting("suggest")
  /\ LET out == served(disk, store,
                       suggest(loadData(disk, store), now, calls[1].req.min,
                               calls[1].req.max, calls[1].req.scan))
     IN /\ store' = out.store /\ disk' = out.disk /\ last' = out.resp
        /\ calls' = <<Done(calls[1], out.resp)>>
  /\ UNCHANGED now

ReadNext == ReadList \/ ReadSystem \/ ReadCheck \/ ReadSuggest

ReadSpec == ReadInit /\ [][ReadNext]_vars

\* the records of st that are due later than t
LiveAt(st, t) == SelectSeq(st, LAMBDA r : r.expiresAt > t)

\* the ports with an active registration when the call found the store
LivePorts(call) == {LiveAt(call.data, now)[i].port : i \in 1..Len(LiveAt(call.data, now))}

\* the request op has been served
Served(call, op) == call.pc = "done" /\ call.req.op = op

\* the ports of the requested range that are neither actively registered nor
\* in the binding map of the call (a failed scan has no map)
C12_Free(call) ==
  {p \in call.req.min..call.req.max : p \notin LivePorts(call) /\ p \notin call.req.scan.ports}

\* C12: suggest(min, max) answers the lowest port of min..max that is neither
\* actively registered nor in the OS binding map of the call, and 404 exactly
\* when there is no such port.
C12_SuggestLowestFree ==
  \A i \in DOMAIN calls :
    Served(calls[i], "suggest")
      => IF C12_Free(calls[i]) = {}
         THEN calls[i].resp.status = 404
         ELSE /\ calls[i].resp.status = 200
              /\ calls[i].resp.port \in C12_Free(calls[i])
              /\ \A p \in C12_Free(calls[i]) : calls[i].resp.port <= p

\* 5000 and 5001 are registered, 5002 is OS-bound and suggest(5000, 5002) was refused
C12_Witness ==
  /\ Served(calls[1], "suggest")
  /\ calls[1].req.min = 5000 /\ calls[1].req.max = 5002
  /\ LivePorts(calls[1]) = {5000, 5001}
  /\ calls[1].req.scan.ok /\ calls[1].req.scan.ports = {5002}
  /\ calls[1].resp.status = 404

\* the OS fields of a listed registration all say unknown
C13_Unknown(r) ==
  /\ r.osInUse = "null" /\ r.osPid = NoValue /\ r.osProto = "null"
  /\ r.osState = "null" /\ r.osProcess = "null"

\* C13: when the scan is unavailable the system endpoint answers 500 without
\* a port list, and the list endpoint answers 200 with every active
\* registration, each with osInUse null and pid, protocol, state, process null.
C13_ScanUnavailable ==
  \A i \in DOMAIN calls :
    (calls[i].pc = "done" /\ ~calls[i].req.scan.ok)
      => /\ calls[i].req.op = "system"
              => calls[i].resp.status = 500 /\ calls[i].resp.view = <<>>
         /\ calls[i].req.op = "list"
              => /\ calls[i].resp.status = 200
                 /\ Len(calls[i].resp.regs) = Len(LiveAt(calls[i].data, now))
                 /\ calls[i].resp.count = Len(LiveAt(calls[i].data, now))
                 /\ \A k \in 1..Len(calls[i].resp.regs) :
                      /\ calls[i].resp.regs[k].port = LiveAt(calls[i].data, now)[k].port
                      /\ calls[i].resp.regs[k].agent = LiveAt(calls[i].data, now)[k].agent
                      /\ calls[i].resp.regs[k].expiresAt
                           = LiveAt(calls[i].data, now)[k].expiresAt
                      /\ C13_Unknown(calls[i].resp.regs[k])

\* two active registrations were listed while the scan was unavailable
C13_Witness ==
  /\ Served(calls[1], "list")
  /\ ~calls[1].req.scan.ok
  /\ calls[1].resp.status = 200
  /\ Len(calls[1].resp.regs) = 2
  /\ Len(calls[1].data) = 3

\* the active registrations the call found for port p
LiveOn(call, p) == SelectSeq(LiveAt(call.data, now), LAMBDA r : r.port = p)

\* C19: when the scan succeeds the system view lists every port of the binding
\* map exactly once in strictly ascending order, and an entry has registered
\* true and the record as registration exactly when an active registration
\* exists for its port; otherwise registered is false and registration null.
C19_SystemView ==
  \A i \in DOMAIN calls :
    (Served(calls[i], "system") /\ calls[i].req.scan.ok)
      => LET view == calls[i].resp.view
         IN /\ calls[i].resp.status = 200
            /\ {view[k].port : k \in 1..Len(view)} = calls[i].req.scan.ports
            /\ \A k \in 1..(Len(view) - 1) : view[k].port < view[k + 1].port
            /\ \A k \in 1..Len(view) :
                 IF LiveOn(calls[i], view[k].port) # <<>>
                 THEN /\ view[k].registered
                      /\ view[k].registration = LiveOn(calls[i], view[k].port)
                 ELSE ~view[k].registered /\ view[k].registration = <<>>

\* a view of four ports, 80 first, with a port under an active registration
\* and a port whose only record has expired
C19_Witness ==
  /\ Served(calls[1], "system")
  /\ Len(calls[1].resp.view) = 4
  /\ calls[1].resp.view[1].port = LowPort
  /\ \E k, m \in 1..Len(calls[1].resp.view) :
       /\ calls[1].resp.view[k].registered
       /\ ~calls[1].resp.view[m].registered
       /\ \E j \in 1..Len(calls[1].data) :
            calls[1].data[j].port = calls[1].resp.view[m].port

\* the ports whose record in the store the call found was due at or before now
C20_ExpiredPorts(call) ==
  {call.data[k].port : k \in {j \in 1..Len(call.data) : call.data[j].expiresAt <= now}}

\* C20: no read at time t reports, counts or treats as occupying its port a
\* registration with expiresAt <= t: list returns and counts only later
\* expiries, check of a port with an expired record reports no owner and decides
\* by the OS alone, the system view marks such a port unregistered, and
\* suggest returns such a port when it is the first of the range and not bound.
C20_ReadersSkipExpired ==
  \A i \in DOMAIN calls :
    LET c == calls[i]
    IN c.pc = "done"
         => /\ c.req.op = "list"
                 => /\ \A k \in 1..Len(c.resp.regs) : c.resp.regs[k].expiresAt > now
                    /\ c.resp.count = Len(c.data) - Cardinality(C20_ExpiredPorts(c))
            /\ (c.req.op = "check" /\ c.req.port \in C20_ExpiredPorts(c))
                 => /\ c.resp.regs = <<>>
                    /\ c.resp.available = (c.req.port \notin c.req.scan.ports)
            /\ c.req.op = "system"
                 => \A k \in 1..Len(c.resp.view) :
                      c.resp.view[k].port \in C20_ExpiredPorts(c)
                        => ~c.resp.view[k].registered /\ c.resp.view[k].registration = <<>>
            /\ (c.req.op = "suggest" /\ c.req.min <= c.req.max
                  /\ c.req.min \in C20_ExpiredPorts(c) /\ c.req.min \notin c.req.scan.ports)
                 => c.resp.status = 200 /\ c.resp.port = c.req.min

\* suggest returned a port whose expired record is still in the file
C20_Witness ==
  /\ Served(calls[1], "suggest")
  /\ calls[1].resp.status = 200
  /\ calls[1].req.scan.ok
  /\ \E k \in 1..Len(store) :
       store[k].port = calls[1].resp.port /\ store[k].expiresAt <= now

\* the registration fields of the listed record r are those of the stored record q
C21_Same(r, q) ==
  /\ r.port = q.port /\ r.agent = q.agent /\ r.reason = q.reason
  /\ r.registeredAt = q.registeredAt /\ r.expiresAt = q.expiresAt
  /\ r.id = q.id /\ r.lastHeartbeat = q.lastHeartbeat

\* the OS fields of the listed record r under a scan that succeeded
C21_Annotated(r, scan) ==
  IF r.port \in scan.ports
  THEN /\ r.osInUse = "true"
       /\ r.osPid = scan.map[r.port].pid
       /\ r.osProto = scan.map[r.port].proto
       /\ r.osState = scan.map[r.port].state
       /\ r.osProcess = IF scan.map[r.port].pid \in DOMAIN scan.names
                        THEN scan.names[scan.map[r.port].pid] ELSE "null"
  ELSE /\ r.osInUse = "false"
       /\ r.osPid = NoValue /\ r.osProto = "null" /\ r.osState = "null"
       /\ r.osProcess = "null"

\* C21: when the scan succeeds the list endpoint answers 200 with every
\* active registration once, in order, count their number, osInUse true
\* exactly for the ports of the binding map and otherwise false; a bound
\* record carries the pid, protocol and state of the binding and the name the
\* resolver has for the pid, null if it has none; an unbound one has all four
\* null. A resolver without names changes nothing else.
C21_ListAnnotated ==
  \A i \in DOMAIN calls :
    (Served(calls[i], "list") /\ calls[i].req.scan.ok)
      => LET regs == calls[i].resp.regs
             live == LiveAt(calls[i].data, now)
         IN /\ calls[i].resp.status = 200
            /\ Len(regs) = Len(live)
            /\ calls[i].resp.count = Len(live)
            /\ \A k \in 1..Len(regs) :
                 C21_Same(regs[k], live[k]) /\ C21_Annotated(regs[k], calls[i].req.scan)

\* a list of three registrations: one bound with a named process, one bound
\* with an unnamed one, one not bound
C21_Witness ==
  /\ Served(calls[1], "list")
  /\ calls[1].req.scan.ok
  /\ \E k, m, n \in 1..Len(calls[1].resp.regs) :
       /\ calls[1].resp.regs[k].osProcess = "node.exe"
       /\ calls[1].resp.regs[m].osInUse = "true" /\ calls[1].resp.regs[m].osProcess = "null"
       /\ calls[1].resp.regs[n].osInUse = "false"


\* --------------------------------------------- register and its validation
\* One POST /api/ports/register whose body holds the port as JSON gives it:
\* missing, a number, or a string of characters.

Digits == <<"0", "1", "2", "3", "4", "5", "6", "7", "8", "9">>

IsDigit(c) == \E k \in 1..Len(Digits) : Digits[k] = c

DigitVal(c) == (CHOOSE k \in 1..Len(Digits) : Digits[k] = c) - 1

\* the value of the digits chars starts with, after the value acc; what
\* follows the digits is ignored
RECURSIVE leadingDigits(_, _)
leadingDigits(chars, acc) ==
  IF chars = <<>> \/ ~IsDigit(Head(chars)) THEN acc
  ELSE leadingDigits(Tail(chars), acc * 10 + DigitVal(Head(chars)))

\* parseInt of a string: blanks are skipped, a sign is read, then the digits
parseIntText(chars) ==
  LET text == TrimLeft(chars)
      negative == text # <<>> /\ Head(text) = "-"
      body == IF negative THEN Tail(text) ELSE text
  IN IF body = <<>> \/ ~IsDigit(Head(body)) THEN [nan |-> TRUE, val |-> 0]
     ELSE [nan |-> FALSE,
           val |-> IF negative THEN 0 - leadingDigits(body, 0) ELSE leadingDigits(body, 0)]

\* parseInt(port) of the body's port
parseInt(raw) ==
  IF raw.kind = "number" THEN [nan |-> FALSE, val |-> raw.val]
  ELSE IF raw.kind = "text" THEN parseIntText(raw.chars)
  ELSE [nan |-> TRUE, val |-> 0]

\* !port: the port is missing, 0 or the empty string
falsyPort(raw) ==
  \/ raw.kind = "missing"
  \/ raw.kind = "number" /\ raw.val = 0
  \/ raw.kind = "text" /\ raw.chars = <<>>

\* the number the handler works with; 0 stands for a port that is falsy or NaN
portNum(raw) == IF falsyPort(raw) \/ parseInt(raw).nan THEN 0 ELSE parseInt(raw).val

\* POST /api/ports/register on the body as sent
registerBody(st, t, raw, agent, reason, ttlMinutes) ==
  register(st, t, portNum(raw), agent, reason, ttlMinutes)

NumberPort(n) == [kind |-> "number", val |-> n, chars |-> <<>>]

TextPort(chars) == [kind |-> "text", val |-> 0, chars |-> chars]

MissingPort == [kind |-> "missing", val |-> 0, chars |-> <<>>]

BodyPorts ==
  {MissingPort}
    \cup {NumberPort(n) : n \in {-1, 0, 1, 8080, 65535, 65536}}
    \cup {TextPort(chars) : chars \in {<<>>, <<"x">>, <<"8", "0">>, <<" ", "8", "0">>,
                                        <<"8", "0", "x">>, <<"-", "1">>}}

BodyAgents == AgentInputs \cup {<<" ">>}

BodyReasons == ReasonInputs \cup {<<>>}

\* the file holds nothing, or one record, active or due, on a port a body names
BodyStores ==
  {<<>>}
    \cup {<<newRegistration(t, p, <<"a">>, <<"r">>, [kind |-> "absent", val |-> 0])>> :
            p \in {1, 80, 8080}, t \in {StartTime - TTL_MS, StartTime - TTL_MS + MinuteMs}}

RegisterRequest(raw, agent, reason, ttlMinutes) ==
  [op |-> "register", port |-> raw, agent |-> agent, reason |-> reason,
   ttlMinutes |-> ttlMinutes]

BodyInit ==
  /\ store \in BodyStores
  /\ disk = "ok"
  /\ now = StartTime
  /\ last = Response("start", 0, <<>>, 0, <<>>, NoValue, FALSE, "null")
  /\ \E raw \in BodyPorts, agent \in BodyAgents, reason \in BodyReasons,
        ttlMinutes \in TtlInputs :
       calls = <<Received(RegisterRequest(raw, agent, reason, ttlMinutes), store)>>

RegisterBody ==
  /\ Waiting("register")
  /\ LET out == served(disk, store,
                       registerBody(loadData(disk, store), now, calls[1].req.port,
                                    calls[1].req.agent, calls[1].req.reason,
                                    calls[1].req.ttlMinutes))
     IN /\ store' = out.store /\ disk' = out.disk /\ last' = out.resp
        /\ calls' = <<Done(calls[1], out.resp)>>
  /\ UNCHANGED now

BodyNext == RegisterBody

BodySpec == BodyInit /\ [][BodyNext]_vars

\* the characters are the decimal text of an integer, blanks around it allowed
C17_NumericText(chars) ==
  LET text == Trim(chars)
      body == IF text # <<>> /\ Head(text) = "-" THEN Tail(text) ELSE text
  IN body # <<>> /\ \A k \in 1..Len(body) : IsDigit(body[k])

\* the port of the body is missing or not a number
C17_MissingOrNonNumeric(raw) ==
  \/ raw.kind = "missing"
  \/ raw.kind = "text" /\ ~C17_NumericText(raw.chars)

\* the number the port of the body denotes is outside 1..65535
C17_OutOfRange(raw) ==
  /\ ~C17_MissingOrNonNumeric(raw)
  /\ LET n == IF raw.kind = "number" THEN raw.val ELSE parseIntText(raw.chars).val
     IN n < 1 \/ n > 65535

\* agent or reason is missing or blank after trimming
C17_Blank(text) == Trim(text) = <<>>

\* the request must fail validation as the claim lists it
C17_Invalid(req) ==
  \/ C17_MissingOrNonNumeric(req.port)
  \/ C17_OutOfRange(req.port)
  \/ C17_Blank(req.agent)
  \/ C17_Blank(req.reason)

\* C17 as stated: register answers 400 when the port is missing, non-numeric or
\* outside 1..65535, or agent or reason is missing or blank after trimming,
\* and leaves the store as it was, also when the port has an active
\* registration.
C17_AsClaimed ==
  \A i \in DOMAIN calls :
    (Served(calls[i], "register") /\ C17_Invalid(calls[i].req))
      => calls[i].resp.status = 400 /\ store = calls[i].data /\ disk = "ok"

\* what the code validates: the port is missing, has no leading integer, or
\* that integer is outside 1..65535, or agent or reason is blank
C17_Rejected(req) ==
  \/ portNum(req.port) < 1 \/ portNum(req.port) > 65535
  \/ C17_Blank(req.agent)
  \/ C17_Blank(req.reason)

\* the rest of C17, with the port read as parseInt reads it
C17_ValidationFirst ==
  \A i \in DOMAIN calls :
    Served(calls[i], "register")
      => IF C17_Rejected(calls[i].req)
         THEN calls[i].resp.status = 400 /\ store = calls[i].data /\ disk = "ok"
         ELSE calls[i].resp.status \in {201, 409}


\* a check of the port right after the register reports the record r as owner
C23_CheckSeesOwner(call, r) ==
  \A scan \in ScanResults :
    LET resp == checkPort(loadData(disk, store), now, r.port, scan).resp
    IN resp.status = 200 /\ resp.regs = <<r>> /\ ~resp.available

\* a check of the port right after the register reports no owner
C23_CheckSeesNone(call, r) ==
  \A scan \in ScanResults :
    LET resp == checkPort(loadData(disk, store), now, r.port, scan).resp
    IN resp.status = 200 /\ resp.regs = <<>>

C23_Negative(ttlMinutes) == ttlMinutes.kind = "num" /\ ttlMinutes.val < 0

AnyRequest(op, port, agent, reason, ttlMinutes, min, max, scan) ==
  [op |-> op, port |-> port, agent |-> agent, reason |-> reason,
   ttlMinutes |-> ttlMinutes, min |-> min, max |-> max, scan |-> scan]

NoTtl == [kind |-> "absent", val |-> 0]

FileRequests ==
  {AnyRequest(op, 0, <<>>, <<>>, NoTtl, 0, 0, scan) :
     op \in {"list", "system"}, scan \in ScanResults}
    \cup {AnyRequest("check", port, <<>>, <<>>, NoTtl, 0, 0, scan) :
            port \in PortInputs, scan \in ScanResults}
    \cup {AnyRequest("register", port, agent, reason, NoTtl, 0, 0, ScanFailed) :
            port \in PortInputs, agent \in AgentInputs, reason \in ReasonInputs}
    \cup {AnyRequest(op, port, agent, <<>>, NoTtl, 0, 0, ScanFailed) :
            op \in {"heartbeat", "release"}, port \in PortInputs, agent \in AgentInputs}
    \cup {AnyRequest("clearAll", 0, <<>>, <<>>, NoTtl, 0, 0, ScanFailed)}
    \cup {AnyRequest("suggest", 0, <<>>, <<>>, NoTtl, min, max, scan) :
            min \in SuggestMin, max \in SuggestMax, scan \in ScanResults}

\* the express routing: the handler of the request, on the registrations st
handle(req, st, t) ==
  CASE req.op = "list" -> listPorts(st, t, req.scan)
    [] req.op = "system" -> systemPorts(st, t, req.scan)
    [] req.op = "check" -> checkPort(st, t, req.port, req.scan)
    [] req.op = "register" -> register(st, t, req.port, req.agent, req.reason, req.ttlMinutes)
    [] req.op = "heartbeat" -> heartbeat(st, t, req.port, req.agent)
    [] req.op = "release" -> release(st, t, req.port, req.agent)
    [] req.op = "clearAll" -> clearAll(st)
    [] req.op = "suggest" -> suggest(st, t, req.min, req.max, req.scan)

FileKinds == {"absent", "unparseable", "noList", "ok"}

\* the registrations of a file that holds the list
FileStores ==
  {<<>>, <<newRegistration(StartTime - MinuteMs, 8080, <<"a">>, <<"r">>, NoTtl)>>}

\* a request that has arrived, with the file it will find
Arrived(req, st, d) ==
  [pc |-> "received", req |-> req, data |-> st, file |-> d,
   resp |-> Response("start", 0, <<>>, 0, <<>>, NoValue, FALSE, "null")]

FileInit ==
  /\ disk \in FileKinds
  /\ store \in IF disk = "ok" THEN FileStores ELSE {<<>>}
  /\ now = StartTime
  /\ last = Response("start", 0, <<>>, 0, <<>>, NoValue, FALSE, "null")
  /\ \E req \in FileRequests : calls = <<Arrived(req, store, disk)>>

Serve ==
  /\ calls[1].pc = "received"
  /\ LET out == served(disk, store, handle(calls[1].req, loadData(disk, store), now))
     IN /\ store' = out.store /\ disk' = out.disk /\ last' = out.resp
        /\ calls' = <<Done(calls[1], out.resp)>>
  /\ UNCHANGED now

FileNext == Serve

FileSpec == FileInit /\ [][FileNext]_vars

\* what the request is answered, and what the file then holds, on an empty registry
C16_OnEmpty(req) == served("ok", <<>>, handle(req, <<>>, now))

\* C16 as stated: when the file is absent, unparseable or parses without a
\* registration list, every endpoint answers exactly as on an empty registry,
\* and the registrations are afterwards what they would be from there.
C16_AsClaimed ==
  \A i \in DOMAIN calls :
    (calls[i].pc = "done" /\ calls[i].file # "ok")
      => /\ calls[i].resp = C16_OnEmpty(calls[i].req).resp
         /\ loadData(disk, store) = C16_OnEmpty(calls[i].req).store

\* the same for a file that is absent or is not JSON
C16_UnlessNoList ==
  \A i \in DOMAIN calls :
    (calls[i].pc = "done" /\ calls[i].file \in {"absent", "unparseable"})
      => /\ calls[i].resp = C16_OnEmpty(calls[i].req).resp
         /\ loadData(disk, store) = C16_OnEmpty(calls[i].req).store
         /\ (calls[i].file = "absent" /\ handle(calls[i].req, <<>>, now).io # "none")
              => disk = "ok"


\* ------------------------------------------------- the scanner on its own
\* getSystemPorts on the lines of one netstat output. A line is what the two
\* regular expressions can tell apart: whether it is indented, the protocol
\* column, the form of the local address, the port after its last colon, and
\* the columns that follow, each a run of non-blank characters.

MaxRows == 3

\* a column: its text, and the number its leading digits give, if it has any
Column(text, digits, val) == [text |-> text, digits |-> digits, val |-> val]

Foreign == Column("*:*", FALSE, 0)

PidColumn(pid) == Column("pid", TRUE, pid)

NetRow(indent, proto, addr, port, rest) ==
  [indent |-> indent, proto |-> proto, addr |-> addr, port |-> port, rest |-> rest]

\* the heading of the table
HeaderRow == NetRow(TRUE, "Proto", "other", 0, <<Column("Foreign", FALSE, 0)>>)

\* the pid of the rows: one process on IPv4, another on IPv6
PidOn(addr) == IF addr = "v4" THEN 4 ELSE 8

RowPorts == {0, 80, 65536}

\* TCP rows, listening or established; UDP rows as netstat prints them, without
\* a state column; and UDP-labelled rows of five columns
RowInputs ==
  {HeaderRow}
    \cup {NetRow(TRUE, "TCP", addr, port, <<Foreign, Column(state, FALSE, 0), PidColumn(PidOn(addr))>>) :
            addr \in {"v4", "v6"}, port \in RowPorts, state \in {"LISTENING", "ESTABLISHED"}}
    \cup {NetRow(TRUE, "UDP", addr, port, <<Foreign, PidColumn(PidOn(addr))>>) :
            addr \in {"v4", "v6"}, port \in RowPorts}
    \cup {NetRow(TRUE, "UDP", addr, port, <<Foreign, Column("x", FALSE, 0), PidColumn(PidOn(addr))>>) :
            addr \in {"v4", "v6"}, port \in RowPorts}

\* line.match of either expression: ^\s+(TCP|UDP)\s+ADDR:(\d+)\s+\S+\s+(\S+)\s+(\d+)
matchRow(row) ==
  /\ row.indent
  /\ row.proto \in {"TCP", "UDP"}
  /\ row.addr \in {"v4", "v6"}
  /\ Len(row.rest) >= 3
  /\ row.rest[3].digits

\* the loop over the lines; portMap.set only for a port not yet in the map
RECURSIVE scanRows(_, _)
scanRows(rows, portMap) ==
  IF rows = <<>> THEN portMap
  ELSE LET row == Head(rows)
           skipped == ~matchRow(row) \/ (row.proto = "TCP" /\ row.rest[2].text # "LISTENING")
           added == /\ ~skipped
                    /\ row.port > 0 /\ row.port <= 65535
                    /\ row.port \notin DOMAIN portMap
           binding == [pid |-> row.rest[3].val, proto |-> row.proto,
                       state |-> IF row.proto = "UDP" THEN "UDP" ELSE row.rest[2].text]
       IN scanRows(Tail(rows), IF added THEN portMap @@ (row.port :> binding) ELSE portMap)

\* getSystemPorts: null when netstat fails, else the map of its lines
getSystemPorts(output) ==
  IF output.failed THEN ScanFailed
  ELSE LET portMap == scanRows(output.rows, <<>>)
       IN [ok |-> TRUE, ports |-> DOMAIN portMap, map |-> portMap, names |-> <<>>]

\* what execSync('netstat -ano') gives: it throws, or it returns up to n lines
NetstatOutputs(n) ==
  {[failed |-> TRUE, rows |-> <<>>]}
    \cup {[failed |-> FALSE, rows |-> rows] : rows \in SeqsUpTo(RowInputs, n)}

ScanInit ==
  /\ store = <<>>
  /\ disk = "ok"
  /\ now = StartTime
  /\ last = Response("start", 0, <<>>, 0, <<>>, NoValue, FALSE, "null")
  /\ \E output \in NetstatOutputs(MaxRows) :
       calls = <<[pc |-> "received", req |-> [op |-> "scan", output |-> output],
                  data |-> <<>>, resp |-> ScanFailed]>>

Scan ==
  /\ Waiting("scan")
  /\ calls' = <<Done(calls[1], getSystemPorts(calls[1].req.output))>>
  /\ UNCHANGED <<store, disk, now, last>>

ScanNext == Scan

ScanSpec == ScanInit /\ [][ScanNext]_vars

\* a UDP row: the protocol, the local address, the foreign address and the
\* pid, with or without a column between the last two
C18_UdpRow(row) ==
  /\ row.indent /\ row.proto = "UDP" /\ row.addr \in {"v4", "v6"}
  /\ Len(row.rest) \in {2, 3}
  /\ row.rest[Len(row.rest)].digits

\* a TCP row whose state is LISTENING
C18_ListeningRow(row) ==
  /\ row.indent /\ row.proto = "TCP" /\ row.addr \in {"v4", "v6"}
  /\ Len(row.rest) = 3
  /\ row.rest[2].text = "LISTENING"
  /\ row.rest[3].digits

\* the rows of the output that the claim includes, by their position
C18_Included(rows) ==
  {k \in 1..Len(rows) :
     /\ rows[k].port >= 1 /\ rows[k].port <= 65535
     /\ C18_UdpRow(rows[k]) \/ C18_ListeningRow(rows[k])}

\* C18 as stated: the map holds port p exactly when p is in 1..65535 and some
\* row for p is a TCP row with state LISTENING or a UDP row; the binding of p
\* is that of the first such row, and a UDP binding has the state "UDP".
C18_AsClaimed ==
  \A i \in DOMAIN calls :
    (Served(calls[i], "scan") /\ ~calls[i].req.output.failed)
      => LET rows == calls[i].req.output.rows
             portMap == calls[i].resp.map
         IN /\ DOMAIN portMap = {rows[k].port : k \in C18_Included(rows)}
            /\ \A p \in DOMAIN portMap :
                 \E k \in C18_Included(rows) :
                   /\ rows[k].port = p
                   /\ \A j \in C18_Included(rows) : rows[j].port = p => k <= j
                   /\ portMap[p].pid = rows[k].rest[Len(rows[k].rest)].val
                   /\ portMap[p].proto = rows[k].proto
                   /\ portMap[p].state
                        = IF rows[k].proto = "UDP" THEN "UDP" ELSE "LISTENING"

\* the same with a UDP row counted only when it has five columns
C18_FiveColumns ==
  \A i \in DOMAIN calls :
    (Served(calls[i], "scan") /\ ~calls[i].req.output.failed)
      => LET rows == calls[i].req.output.rows
             portMap == calls[i].resp.map
             included == {k \in C18_Included(rows) : Len(rows[k].rest) = 3}
         IN /\ DOMAIN portMap = {rows[k].port : k \in included}
            /\ \A p \in DOMAIN portMap :
                 \E k \in included :
                   /\ rows[k].port = p
                   /\ \A j \in included : rows[j].port = p => k <= j
                   /\ portMap[p].pid = rows[k].rest[3].val
                   /\ portMap[p].proto = rows[k].proto
                   /\ portMap[p].state
                        = IF rows[k].proto = "UDP" THEN "UDP" ELSE "LISTENING"


\* ------------------------------------------- two requests between load and save
\* Two mutating requests whose handlers are allowed to interleave: each loads
\* the file, computes on what it loaded, and saves; the other's steps may
\* fall in between.

RaceAgents == {<<"a">>, <<"b">>}

RaceRequests ==
  {AnyRequest("register", port, agent, <<"r">>, NoTtl, 0, 0, ScanFailed) :
     port \in {8080, 8081}, agent \in RaceAgents}
    \cup {AnyRequest(op, 8081, <<"a">>, <<>>, NoTtl, 0, 0, ScanFailed) :
            op \in {"heartbeat", "release"}}
    \cup {AnyRequest("clearAll", 0, <<>>, <<>>, NoTtl, 0, 0, ScanFailed)}

\* the file holds nothing or one active registration
RaceStores ==
  {<<>>, <<newRegistration(StartTime - MinuteMs, 8081, <<"a">>, <<"r">>, NoTtl)>>}

RaceInit ==
  /\ store \in RaceStores
  /\ disk = "ok"
  /\ now = StartTime
  /\ last = Response("start", 0, <<>>, 0, <<>>, NoValue, FALSE, "null")
  /\ \E first \in RaceRequests, second \in RaceRequests :
       calls = <<Received(first, <<>>), Received(second, <<>>)>>

\* the handler of the request reads the file (clearAll does not)
loads(req) == handle(req, <<>>, now).io \in {"load", "save"}

\* the registrations the handler computes on although the file holds others
\* by now: a handler that read the file again before it saves
dataReloaded(call, file) == file

\* the registrations the handler computes on: the data it loaded
dataOf(call, file) == call.data

\* const data = loadData()
RaceLoad(i) ==
  /\ calls[i].pc = "received"
  /\ loads(calls[i].req)
  /\ calls' = [calls EXCEPT ![i] = [@ EXCEPT !.pc = "loaded", !.data = loadData(disk, store)]]
  /\ disk' = diskAfterLoad(disk)
  /\ UNCHANGED <<store, now, last>>

\* the rest of the handler: the result computed on its data is saved and answered
RaceFinish(i) ==
  /\ calls[i].pc = "loaded" \/ (calls[i].pc = "received" /\ ~loads(calls[i].req))
  /\ LET out == handle(calls[i].req, dataOf(calls[i], store), now)
         saves == out.io \in {"save", "write"}
     IN /\ store' = IF saves THEN out.store ELSE store
        /\ disk' = IF saves THEN "ok" ELSE disk
        /\ last' = out.resp
        /\ calls' = [calls EXCEPT ![i] = Done(@, out.resp)]
  /\ UNCHANGED now

RaceNext == \E i \in {1, 2} : RaceLoad(i) \/ RaceFinish(i)

RaceSpec == RaceInit /\ [][RaceNext]_vars

\* both requests were registers and both were answered 201
C15_BothRegistered ==
  /\ \A i \in {1, 2} : Served(calls[i], "register") /\ calls[i].resp.status = 201

\* C15: when two registers interleave between load and save (both computed on
\* the same loaded data) and both are answered 201, the store is that data
\* plus the record of one of them only, also when both took the same port;
\* when they did not interleave, both records are in the store and their ports
\* differ.
C15_LostUpdate ==
  C15_BothRegistered
    => IF calls[1].data = calls[2].data
       THEN \E i \in {1, 2} : store = Append(calls[i].data, calls[i].resp.regs[1])
       ELSE /\ calls[1].resp.port # calls[2].resp.port
            /\ \A i \in {1, 2} : \E k \in 1..Len(store) : store[k] = calls[i].resp.regs[1]

\* two agents were both answered 201 for port 8080 and the store holds one
\* record for it
C15_Witness ==
  /\ C15_BothRegistered
  /\ calls[1].resp.port = 8080 /\ calls[2].resp.port = 8080
  /\ calls[1].resp.regs[1].agent # calls[2].resp.regs[1].agent
  /\ Len(SelectSeq(store, LAMBDA r : r.port = 8080)) = 1


\* ------------------------------------------ the mutating routes on their own
\* One register, heartbeat or release against a store of several records,
\* active and expired.

WriteAgents == {<<>>, <<"a">>, <<"b">>}

WriteRequests ==
  {AnyRequest("register", port, agent, <<"r">>, ttlMinutes, 0, 0, ScanFailed) :
     port \in ReadPorts, agent \in WriteAgents, ttlMinutes \in TtlInputs}
    \cup {AnyRequest(op, port, agent, <<>>, NoTtl, 0, 0, ScanFailed) :
            op \in {"heartbeat", "release"}, port \in ReadPorts, agent \in WriteAgents}

WriteInit ==
  /\ store \in ReadStores
  /\ disk = "ok"
  /\ now = StartTime
  /\ last = Response("start", 0, <<>>, 0, <<>>, NoValue, FALSE, "null")
  /\ \E req \in WriteRequests : calls = <<Arrived(req, store, disk)>>

WriteSpec == WriteInit /\ [][FileNext]_vars

\* the request was a register, heartbeat or release and it succeeded
C24_Succeeded(call) ==
  /\ call.pc = "done"
  /\ \/ call.req.op = "register" /\ call.resp.status = 201
     \/ call.req.op \in {"heartbeat", "release"} /\ call.resp.status = 200

\* the records of st on other ports than p that are unexpired at the call
C24_Others(st, p) == SelectSeq(st, LAMBDA r : r.port # p /\ r.expiresAt > now)

\* C24: a successful register, heartbeat or release on port p leaves the
\* registrations on other ports that are unexpired at the call unchanged and
\* in their order; register puts the new record at the end, release removes
\* only the record for p, heartbeat changes only expiresAt and lastHeartbeat
\* of the record for p.
C24_Frame ==
  \A i \in DOMAIN calls :
    C24_Succeeded(calls[i])
      => LET p == calls[i].req.port
             before == calls[i].data
         IN /\ C24_Others(store, p) = C24_Others(before, p)
            /\ calls[i].req.op = "register"
                 => store = Append(C24_Others(before, p), calls[i].resp.regs[1])
            /\ calls[i].req.op = "release"
                 => store = SelectSeq(before, LAMBDA r : r.port # p)
            /\ calls[i].req.op = "heartbeat"
                 => /\ Len(store) = Len(before)
                    /\ \A k \in 1..Len(before) :
                         IF before[k].port = p
                         THEN store[k] = Renewed(before[k], store[k])
                         ELSE store[k] = before[k]

\* the first of three records was released and the two after it are kept
C24_Witness ==
  /\ C24_Succeeded(calls[1])
  /\ calls[1].req.op = "release"
  /\ Len(calls[1].data) = 3
  /\ calls[1].data[1].port = calls[1].req.port
  /\ store = Tail(calls[1].data)


\* ------------------------------------------------ suggest and its range
\* One GET /api/suggest whose min and max are any numbers; 0 stands for a
\* value that is missing, zero or not a number.

RangeInputs == {-1, 0, 1, 5000, 5002, 65535, 65536}

RangeScans == {ScanFailed} \cup {ScanOf(S, OsNames) : S \in SUBSET ReadPorts}

RangeRequests ==
  {Request("suggest", 0, <<>>, min, max, scan) :
     min \in RangeInputs, max \in RangeInputs, scan \in RangeScans}

RangeInit ==
  /\ store \in ReadStores
  /\ disk = "ok"
  /\ now = StartTime
  /\ last = Response("start", 0, <<>>, 0, <<>>, NoValue, FALSE, "null")
  /\ \E req \in RangeRequests : calls = <<Received(req, store)>>

RangeNext == ReadSuggest

RangeSpec == RangeInit /\ [][RangeNext]_vars

\* the bounds of the range the request asks for, with the defaults
C25_Min(req) == IF req.min = 0 THEN 3000 ELSE req.min

C25_Max(req) == IF req.max = 0 THEN 9999 ELSE req.max

\* C25 as stated: a port p that suggest(min, max) returns satisfies
\* min <= p <= max, with 3000 and 9999 for a missing or zero value, and is a
\* port number in 1..65535.
C25_AsClaimed ==
  \A i \in DOMAIN calls :
    (Served(calls[i], "suggest") /\ calls[i].resp.status = 200)
      => /\ C25_Min(calls[i].req) <= calls[i].resp.port
         /\ calls[i].resp.port <= C25_Max(calls[i].req)
         /\ calls[i].resp.port >= 1 /\ calls[i].resp.port <= 65535

\* the port is within the range asked for
C25_WithinRange ==
  \A i \in DOMAIN calls :
    (Served(calls[i], "suggest") /\ calls[i].resp.status = 200)
      => /\ C25_Min(calls[i].req) <= calls[i].resp.port
         /\ calls[i].resp.port <= C25_Max(calls[i].req)

\* C26: when suggest(min, max) returns a port p in 1..65535, check(p) on the
\* same registrations, time and scan answers available = true and a valid
\* register(p) is not answered 409; every port q with min <= q < p has
\* check(q) answering available = false.
C26_AllocatorAgrees ==
  \A i \in DOMAIN calls :
    (Served(calls[i], "suggest") /\ calls[i].resp.status = 200
       /\ calls[i].resp.port >= 1 /\ calls[i].resp.port <= 65535)
      => LET p == calls[i].resp.port
             scan == calls[i].req.scan
         IN /\ checkPort(calls[i].data, now, p, scan).resp.status = 200
            /\ checkPort(calls[i].data, now, p, scan).resp.available
            /\ register(calls[i].data, now, p, <<"b">>, <<"r">>, NoTtl).resp.status = 201
            /\ \A q \in C25_Min(calls[i].req)..(p - 1) :
                 /\ checkPort(calls[i].data, now, q, scan).resp.status = 200
                 /\ ~checkPort(calls[i].data, now, q, scan).resp.available

\* suggest(5000, 65535) returned 5002 past a registered and a bound port
C26_Witness ==
  /\ Served(calls[1], "suggest")
  /\ calls[1].req.min = 5000 /\ calls[1].req.max = 65535
  /\ calls[1].resp.status = 200 /\ calls[1].resp.port = 5002
  /\ 5000 \in LivePorts(calls[1])
  /\ calls[1].req.scan.ok /\ 5001 \in calls[1].req.scan.ports
  /\ \E k \in 1..Len(store) : store[k].port = 5002 /\ store[k].expiresAt <= now

====
